---- MODULE Spec2Model ----
(***************************************************************************)
(* A model of extract_google_alerts_mbox.py: the script reads an mbox      *)
(* archive, keeps date, message id and HTML body of each usable message,   *)
(* extracts the schema.org Article rows of every body and writes them to   *)
(* a tab-separated file.                                                   *)
(*                                                                         *)
(* Strings whose inside matters are sequences of tokens: a date is a       *)
(* sequence of digit characters, a text is a sequence of words and         *)
(* explicit " " tokens, a query value is a sequence of literal pieces and  *)
(* percent escapes.  Markup is a sequence of nodes, each a record with     *)
(* the same fields (a text node has tag "#text").                          *)
(***************************************************************************)
EXTENDS Integers, Sequences, FiniteSets, TLC

VARIABLES
    mbox_file,        \* what args.mbox_file names: "ok", "missing", "unreadable"
    archive,          \* the messages of the mbox file, in archive order
    archive_open,     \* the file handle mailbox.mbox() holds is open
    pc,               \* position of the script
    key,              \* number of keys archive.iterkeys() has yielded
    steps,            \* parts message.walk() has still to yield
    messages_parsed,  \* list of <<date_mdcy, message_id, html_content>>
    messages_total,
    messages_defective,
    article_list,     \* list of <<date, message_id, url, title, publisher, teaser>>
    entry_idx,        \* number of entries of messages_parsed the loop has taken
    soup,             \* BeautifulSoup tree of the current entry
    articles,         \* node ids soup.findAll returned
    art_idx,          \* number of articles of the entry the loop has taken
    bold_tags,        \* node ids article.find_all('b') returned, not yet unwrapped
    article_text,     \* str(article)
    article_data,     \* MicrodataExtractor().extract(article_text)
    google_url,
    url,
    output_file,      \* [exists, rows]: the file args.output_file names
    console,          \* what was printed, one tag per print call
    error             \* the uncaught exception that ended the run, or ""

vars == <<mbox_file, archive, archive_open, pc, key, steps, messages_parsed,
          messages_total, messages_defective, article_list, entry_idx, soup,
          articles, art_idx, bold_tags, article_text, article_data,
          google_url, url, output_file, console, error>>

-----------------------------------------------------------------------------
(* Bounds of the model *)

MaxMsgs == 3       \* messages in an archive
MaxArticles == 2   \* article rows in one HTML body of the article family
MaxNest == 2       \* nesting depth of inline elements around a word
MaxQuery == 2      \* parameters in a link's query string

-----------------------------------------------------------------------------
(* Generic helpers *)

RECURSIVE SeqsOfLen(_, _)
SeqsOfLen(S, n) ==
    IF n = 0 THEN {<<>>}
    ELSE {Append(s, x) : s \in SeqsOfLen(S, n - 1), x \in S}

SeqsUpTo(S, n) == UNION {SeqsOfLen(S, k) : k \in 0..n}

RECURSIVE Repeat(_, _)
Repeat(x, n) == IF n <= 0 THEN <<>> ELSE <<x>> \o Repeat(x, n - 1)

Last(s) == s[Len(s)]

IsPrefix(p, s) == Len(p) <= Len(s) /\ SubSeq(s, 1, Len(p)) = p

None == "None"

-----------------------------------------------------------------------------
(* The date header: email.utils.parsedate_tz and the MMDDYYYY formatting *)

\* A date header as the parser sees it after splitting: day, month word and
\* year number.  A missing header is NoDate.
DateHeader(dd, mm, yy) == [dd |-> dd, mm |-> mm, yy |-> yy]

NoDate == DateHeader(0, "", 0)

Monthnames ==
    <<"jan", "feb", "mar", "apr", "may", "jun", "jul", "aug", "sep", "oct",
      "nov", "dec", "january", "february", "march", "april", "may", "june",
      "july", "august", "september", "october", "november", "december">>

IndexOf(s, x) == CHOOSE i \in 1..Len(s) : s[i] = x /\ \A j \in 1..(i - 1) : s[j] # x

\* parsedate_tz: <<>> stands for None, else <<year, month, day>> (the first
\* three fields of the tuple; the script reads no other).  A year below 100
\* is windowed to 1969..2068, any other year is returned as written.
parsedate_tz(h) ==
    IF h = NoDate THEN <<>>
    ELSE IF ~ \E i \in 1..Len(Monthnames) : Monthnames[i] = h.mm THEN <<>>
    ELSE LET i == IndexOf(Monthnames, h.mm)
             mm == IF i > 12 THEN i - 12 ELSE i
             yy == IF h.yy < 100
                   THEN (IF h.yy > 68 THEN h.yy + 1900 ELSE h.yy + 2000)
                   ELSE h.yy
         IN <<yy, mm, h.dd>>

DigitChars == <<"0", "1", "2", "3", "4", "5", "6", "7", "8", "9">>

\* str(n) for n >= 0
RECURSIVE Str(_)
Str(n) == IF n < 10 THEN <<DigitChars[n + 1]>>
          ELSE Append(Str(n \div 10), DigitChars[(n % 10) + 1])

\* "{:0>2}".format(n): right-aligned in a field of width 2, filled with "0"
Format02(n) == Repeat("0", 2 - Len(Str(n))) \o Str(n)

FormatDate(t) == Format02(t[2]) \o Format02(t[3]) \o Format02(t[1])

-----------------------------------------------------------------------------
(* Markup *)

\* A node of markup; href and text are strings (sequences of tokens), the
\* empty string where the node has none.
Node(tag, itemtype, itemprop, itemscope, href, text, kids) ==
    [tag |-> tag, itemtype |-> itemtype, itemprop |-> itemprop,
     itemscope |-> itemscope, href |-> href, text |-> text, kids |-> kids]

Txt(tokens) == Node("#text", "", "", FALSE, <<>>, tokens, <<>>)

El(tag, kids) == Node(tag, "", "", FALSE, <<>>, <<>>, kids)

Prop(tag, itemprop, kids) == Node(tag, "", itemprop, FALSE, <<>>, <<>>, kids)

ArticleType == "http://schema.org/Article"

OrganizationType == "http://schema.org/Organization"


-----------------------------------------------------------------------------
(* BeautifulSoup: the parsed tree, find_all, replace_with_children, str *)

\* The tree BeautifulSoup builds: nodes are numbered in document order, node 1
\* is the document itself; node[i] holds tag, attributes and text of node i,
\* kids[i] the ids of its children.
Attrs(nd) == [nd EXCEPT !.kids = <<>>]

\* The number of nodes of a subtree, and of the first n of a list of subtrees.
RECURSIVE Size(_), SizeOfFirst(_, _)
Size(nd) == 1 + SizeOfFirst(nd.kids, Len(nd.kids))
SizeOfFirst(ks, n) == IF n = 0 THEN 0 ELSE SizeOfFirst(ks, n - 1) + Size(ks[n])

\* The nodes of a subtree in document order.
RECURSIVE Preorder(_), PreorderAll(_)
Preorder(nd) == <<nd>> \o PreorderAll(nd.kids)
PreorderAll(ks) == IF ks = <<>> THEN <<>> ELSE Preorder(Head(ks)) \o PreorderAll(Tail(ks))

\* The tree whose nodes, in document order, are pre: the children of node i
\* follow it, each after the subtrees of its elder siblings.
TreeOf(pre) ==
    [node |-> [i \in 1..Len(pre) |-> Attrs(pre[i])],
     kids |-> [i \in 1..Len(pre) |->
                 [c \in 1..Len(pre[i].kids) |-> i + 1 + SizeOfFirst(pre[i].kids, c - 1)]]]

\* BeautifulSoup(html, "html.parser")
BeautifulSoup(markup) == TreeOf(Preorder(El("[document]", markup)))

\* The descendants of node id, in document order.
RECURSIVE Descendants(_, _), DescendantsOfAll(_, _)
Descendants(dom, id) == DescendantsOfAll(dom, dom.kids[id])
DescendantsOfAll(dom, ids) ==
    IF ids = <<>> THEN <<>>
    ELSE <<Head(ids)>> \o Descendants(dom, Head(ids)) \o DescendantsOfAll(dom, Tail(ids))

\* Variant: a row is taken for an article by its itemscope, not its itemtype.
IsArticleRow_byItemscope(a) == a.tag = "tr" /\ a.itemscope
IsArticleRow(a) == a.tag = "tr" /\ a.itemtype = ArticleType

IsBold(a) == a.tag = "b"

RECURSIVE ArticleRowsAmong(_, _)
ArticleRowsAmong(dom, ids) ==
    IF ids = <<>> THEN <<>>
    ELSE (IF IsArticleRow(dom.node[Head(ids)]) THEN <<Head(ids)>> ELSE <<>>)
         \o ArticleRowsAmong(dom, Tail(ids))

RECURSIVE BoldAmong(_, _)
BoldAmong(dom, ids) ==
    IF ids = <<>> THEN <<>>
    ELSE (IF IsBold(dom.node[Head(ids)]) THEN <<Head(ids)>> ELSE <<>>)
         \o BoldAmong(dom, Tail(ids))

\* soup.findAll("tr", {"itemtype": 'http://schema.org/Article'})
findAllArticles(dom) == ArticleRowsAmong(dom, Descendants(dom, 1))

\* article.find_all('b')
find_all_b(dom, id) == BoldAmong(dom, Descendants(dom, id))

Parent(dom, id) == CHOOSE p \in 1..Len(dom.kids) : \E k \in 1..Len(dom.kids[p]) : dom.kids[p][k] = id

\* bold_tag.replace_with_children(): the tag leaves its parent and its children
\* take its place, in their order.
\* Variant: the tag leaves its parent and takes its children with it.
replace_with_children_emptied(dom, id) ==
    LET p == Parent(dom, id)
        k == IndexOf(dom.kids[p], id)
    IN [dom EXCEPT
          !.kids[p] = SubSeq(@, 1, k - 1) \o SubSeq(@, k + 1, Len(@)),
          !.kids[id] = <<>>]
replace_with_children(dom, id) ==
    LET p == Parent(dom, id)
        k == IndexOf(dom.kids[p], id)
    IN [dom EXCEPT
          !.kids[p] = SubSeq(@, 1, k - 1) \o dom.kids[id] \o SubSeq(@, k + 1, Len(@)),
          !.kids[id] = <<>>]

\* Text nodes that are neighbours in the tree are one run of characters in
\* the string.
RECURSIVE MergeText(_)
MergeText(ks) ==
    IF Len(ks) < 2 THEN ks
    ELSE IF ks[1].tag = "#text" /\ ks[2].tag = "#text"
         THEN MergeText(<<Txt(ks[1].text \o ks[2].text)>> \o SubSeq(ks, 3, Len(ks)))
         ELSE <<ks[1]>> \o MergeText(Tail(ks))

\* str(tag): the markup of the subtree at node id
RECURSIVE ToMarkup(_, _), ToMarkupAll(_, _)
ToMarkup(dom, id) == [dom.node[id] EXCEPT !.kids = MergeText(ToMarkupAll(dom, dom.kids[id]))]
ToMarkupAll(dom, ids) ==
    IF ids = <<>> THEN <<>>
    ELSE <<ToMarkup(dom, Head(ids))>> \o ToMarkupAll(dom, Tail(ids))

-----------------------------------------------------------------------------
(* extruct.MicrodataExtractor *)

\* The text of an element as the extractor returns it: the runs of text in
\* document order, with a space where an inline tag separates two runs
\* ('<b>AI</b>-powered' gives 'AI -powered').
RECURSIVE TextChunks(_)
TextChunks(ks) ==
    IF ks = <<>> THEN <<>>
    ELSE (IF Head(ks).tag = "#text" THEN <<Head(ks).text>> ELSE TextChunks(Head(ks).kids))
         \o TextChunks(Tail(ks))

RECURSIVE JoinSpace(_)
JoinSpace(chunks) ==
    IF chunks = <<>> THEN <<>>
    ELSE IF Len(chunks) = 1 THEN chunks[1]
    ELSE chunks[1] \o <<" ">> \o JoinSpace(Tail(chunks))

TextContent(nd) == JoinSpace(TextChunks(nd.kids))

\* The elements that state a property of the item whose children are ks: an
\* element with itemprop is a property (its inside belongs to a nested item
\* when it has itemscope, to this item otherwise); an itemscope without
\* itemprop starts an item of its own.
RECURSIVE PropNodes(_)
PropNodes(ks) ==
    IF ks = <<>> THEN <<>>
    ELSE LET nd == Head(ks)
         IN (IF nd.itemprop # "" THEN <<nd>> ELSE <<>>)
            \o (IF nd.itemscope THEN <<>> ELSE PropNodes(nd.kids))
            \o PropNodes(Tail(ks))

\* A Python value the extractor returns: a str, or an item (a dict with
\* "type" and "properties").
NoProperties == [n \in {} |-> <<>>]

StrValue(tokens) == [item |-> FALSE, str |-> tokens, type |-> "", properties |-> NoProperties]

ItemValue(type, properties) == [item |-> TRUE, str |-> <<>>, type |-> type, properties |-> properties]

\* An item: its type and its properties.  A property is a nested item, the
\* href of a link, or the element's text.  (The markup modelled here states
\* each property of an item at most once; extruct returns a list otherwise.)
RECURSIVE ItemOf(_)
ItemOf(nd) ==
    LET ps == PropNodes(nd.kids)
        names == {ps[i].itemprop : i \in 1..Len(ps)}
        first(n) == ps[CHOOSE i \in 1..Len(ps) :
                          ps[i].itemprop = n /\ \A j \in 1..(i - 1) : ps[j].itemprop # n]
    IN ItemValue(nd.itemtype,
            [n \in names |->
                IF first(n).itemscope THEN ItemOf(first(n))
                ELSE IF first(n).tag = "a" THEN StrValue(first(n).href)
                ELSE StrValue(TextContent(first(n)))])

\* The top-level items of a fragment: every itemscope that is not a property.
RECURSIVE TopItems(_)
TopItems(ks) ==
    IF ks = <<>> THEN <<>>
    ELSE LET nd == Head(ks)
         IN (IF nd.itemscope /\ nd.itemprop = "" THEN <<ItemOf(nd)>> ELSE <<>>)
            \o TopItems(nd.kids) \o TopItems(Tail(ks))

\* MicrodataExtractor().extract(article_text)
MicrodataExtract(fragment) == TopItems(<<fragment>>)

-----------------------------------------------------------------------------
(* urllib.parse *)

\* unquote, with "+" read as a space as parse_qs does
UnquoteToken(t) ==
    CASE t = "%3A" -> ":"
      [] t = "%2F" -> "/"
      [] t = "%3F" -> "?"
      [] t = "%3D" -> "="
      [] t = "+" -> " "
      [] OTHER -> t

Unquote(v) == [i \in 1..Len(v) |-> UnquoteToken(v[i])]

\* s.split(sep): the pieces of s between the occurrences of sep
RECURSIVE Split(_, _)
Split(s, sep) ==
    IF \A i \in 1..Len(s) : s[i] # sep THEN <<s>>
    ELSE LET k == IndexOf(s, sep)
         IN <<SubSeq(s, 1, k - 1)>> \o Split(SubSeq(s, k + 1, Len(s)), sep)

\* urlparse(u).query: what stands between the first "?" and the fragment
UrlQuery(u) ==
    LET nofrag == Split(u, "#")[1]
    IN IF \A i \in 1..Len(nofrag) : nofrag[i] # "?" THEN <<>>
       ELSE SubSeq(nofrag, IndexOf(nofrag, "?") + 1, Len(nofrag))

\* parse_qsl(qs): the <<name, value>> pairs of the query, decoded; a field
\* without "=" or with a blank value is dropped (keep_blank_values is off).
RECURSIVE PairsOf(_)
PairsOf(fields) ==
    IF fields = <<>> THEN <<>>
    ELSE LET f == Head(fields)
             hasEq == \E i \in 1..Len(f) : f[i] = "="
             k == IndexOf(f, "=")
             value == SubSeq(f, k + 1, Len(f))
         IN (IF hasEq /\ value # <<>>
             THEN <<<<Unquote(SubSeq(f, 1, k - 1)), Unquote(value)>>>>
             ELSE <<>>)
            \o PairsOf(Tail(fields))

parse_qsl(qs) == PairsOf(Split(qs, "&"))

\* parse_qs(qs).get(name, [''])[0]
RECURSIVE ValuesOf(_, _)
ValuesOf(pairs, name) ==
    IF pairs = <<>> THEN <<>>
    ELSE (IF Head(pairs)[1] = name THEN <<Head(pairs)[2]>> ELSE <<>>)
         \o ValuesOf(Tail(pairs), name)

\* Variant: the last value listed under the name, not the first.
QueryGet_lastValue(qs, name) ==
    LET values == ValuesOf(parse_qsl(qs), name)
    IN IF values = <<>> THEN <<>> ELSE Last(values)
QueryGet(qs, name) ==
    LET values == ValuesOf(parse_qsl(qs), name)
    IN IF values = <<>> THEN <<>> ELSE values[1]


-----------------------------------------------------------------------------
(* Inputs: article rows, HTML bodies, messages, archives *)

Word(w) == Txt(<<w>>)

RECURSIVE Wrap(_, _)
Wrap(tags, nd) == IF tags = <<>> THEN nd ELSE El(Head(tags), <<Wrap(Tail(tags), nd)>>)

InlineTags == {"b", "em", "span"}

DefaultTitle == <<El("b", <<Word("AI")>>), Word("-powered")>>

\* A word inside up to MaxNest inline elements, followed by the rest of the
\* compound, bare or in bold; and two titles whose bold element has several
\* children.
Titles ==
    {<<Wrap(tags, Word("AI")), tail>> :
        tags \in SeqsUpTo(InlineTags, MaxNest),
        tail \in {Word("-powered"), El("b", <<Word("-powered")>>)}}
    \cup {<<El("b", <<Word("New"), El("em", <<Word("AI")>>), Word("-"), El("b", <<Word("powered")>>)>>),
            Word("tools")>>,
          <<Word("Plain"), Word("title")>>}

RedirectBase == "https://www.google.com/url"

Destination == <<"https", "%3A", "%2F", "%2F", "news.example", "%2F", "a">>

DefaultLink == <<RedirectBase, "?", "rct", "=", "j", "&", "url", "=">> \o Destination

\* the link of the redirect example: https://redirect.example/?url=https%3A%2F%2Fnews.example%2Fa
ExampleLink == <<"https://redirect.example/", "?", "url", "=">> \o Destination

QueryFields ==
    {<<"url", "=">> \o Destination,
     <<"url", "=", "b", "+", "c", "%3F", "d", "%3D", "e">>,
     <<"url", "=">>,
     <<"rct", "=", "j">>}

RECURSIVE JoinAmp(_)
JoinAmp(fs) ==
    IF fs = <<>> THEN <<>>
    ELSE IF Len(fs) = 1 THEN fs[1]
    ELSE fs[1] \o <<"&">> \o JoinAmp(Tail(fs))

Links ==
    {<<RedirectBase>>, ExampleLink, DefaultLink \o <<"#", "top">>}
    \cup {<<RedirectBase, "?">> \o JoinAmp(q) : q \in SeqsUpTo(QueryFields, MaxQuery)}

Shapes ==
    {"ok", "noscope", "nopublisher", "plainpublisher", "anonpublisher",
     "notitle", "noteaser", "nolink"}

Publisher(shape) ==
    CASE shape = "nopublisher" -> <<>>
      [] shape = "plainpublisher" -> <<Prop("div", "publisher", <<Word("Example News")>>)>>
      [] shape = "anonpublisher" ->
            <<Node("div", OrganizationType, "publisher", TRUE, <<>>, <<>>,
                   <<El("span", <<Word("Example News")>>)>>)>>
      [] OTHER ->
            <<Node("div", OrganizationType, "publisher", TRUE, <<>>, <<>>,
                   <<Prop("span", "name", <<Word("Example News")>>)>>)>>

\* One article row of a digest, as Google Alerts lays it out.
ArticleRow(link, title, shape) ==
    Node("tr", ArticleType, "", shape # "noscope", <<>>, <<>>,
         <<El("td",
              (IF shape = "nolink" THEN <<>>
               ELSE <<Node("a", "", "url", FALSE, link, <<>>,
                           <<IF shape = "notitle" THEN El("span", title)
                             ELSE Prop("span", "name", title)>>)>>)
              \o Publisher(shape)
              \o (IF shape = "noteaser" THEN <<>>
                  ELSE <<Prop("div", "description",
                              <<Word("More"), El("b", <<Word("AI")>>), Word("news")>>)>>))>>)

DefaultArticle == ArticleRow(DefaultLink, DefaultTitle, "ok")

FamilyArticles ==
    {ArticleRow(DefaultLink, t, "ok") : t \in Titles}
    \cup {ArticleRow(l, DefaultTitle, "ok") : l \in Links}
    \cup {ArticleRow(DefaultLink, DefaultTitle, sh) : sh \in Shapes}

\* A row of the digest that is no article.
FooterRow == El("tr", <<El("td", <<El("b", <<Word("Unsubscribe")>>)>>)>>)

\* An HTML body: a table of article rows and the footer.
Body(rows) == <<El("table", rows \o <<FooterRow>>)>>

FamilyBodies ==
    {Body(Repeat(DefaultArticle, n) \o <<a>> \o Repeat(DefaultArticle, m)) :
        a \in FamilyArticles,
        n \in 0..(MaxArticles - 1),
        m \in 0..(MaxArticles - 1)}

BodyA == Body(<<DefaultArticle, ArticleRow(ExampleLink, <<Word("Plain"), Word("title")>>, "ok")>>)

BodyB == Body(<<>>)

BodyC == Body(<<ArticleRow(<<RedirectBase>>, DefaultTitle, "ok")>>)

BodyDefect == Body(<<DefaultArticle, ArticleRow(DefaultLink, DefaultTitle, "nopublisher"), DefaultArticle>>)

\* A part of a message: content type, payload (the markup its bytes decode
\* to, when they decode as UTF-8) and subparts.
Part(ctype, decodable, html, parts) ==
    [ctype |-> ctype, decodable |-> decodable, html |-> html, parts |-> parts]

TextPlain == <<"text", "/", "plain">>

TextHtml == <<"text", "/", "html">>

Xhtml == <<"application", "/", "x", "html", "+", "xml">>

MultipartAlternative == <<"multipart", "/", "alternative">>

PlainPart == Part(TextPlain, TRUE, <<Word("text")>>, <<>>)

HtmlPart(body) == Part(TextHtml, TRUE, body, <<>>)

UndecodablePart == Part(TextHtml, FALSE, <<>>, <<>>)

Multipart(parts) == Part(MultipartAlternative, TRUE, <<>>, parts)

Leaves == {PlainPart, HtmlPart(BodyA), HtmlPart(BodyB), UndecodablePart}

Structures ==
    Leaves
    \cup {Multipart(ps) : ps \in SeqsOfLen(Leaves, 1) \cup SeqsOfLen(Leaves, 2)}
    \cup {Multipart(<<Multipart(<<PlainPart, HtmlPart(BodyC)>>), Part(Xhtml, TRUE, BodyA, <<>>)>>),
          HtmlPart(BodyDefect)}

Message(defects, date, mid, root) ==
    [defects |-> defects, date |-> date, mid |-> mid, root |-> root]

GoodDate == DateHeader(3, "jan", 2024)

DateHeaders ==
    {NoDate, DateHeader(3, "foo", 2024), DateHeader(14, "december", 99),
     DateHeader(9, "sep", 5), DateHeader(1, "feb", 123), DateHeader(31, "oct", 12345)}

Structures3 == {PlainPart, HtmlPart(BodyA), Multipart(<<HtmlPart(BodyC), HtmlPart(BodyA)>>)}

Messages ==
    {Message(<<>>, GoodDate, "<1@alerts>", st) : st \in Structures}
    \cup {Message(<<"NoBoundaryInMultipartDefect">>, GoodDate, "<2@alerts>", st) : st \in Structures3}
    \cup {Message(<<>>, d, "<3@alerts>", st) : d \in DateHeaders, st \in Structures3}
    \cup {Message(<<>>, GoodDate, None, HtmlPart(BodyC))}

\* Messages that between them take the script through every branch.
BaseMessages ==
    {Message(<<>>, GoodDate, "<1@alerts>", HtmlPart(BodyA)),
     Message(<<"NoBoundaryInMultipartDefect">>, GoodDate, "<2@alerts>", HtmlPart(BodyA)),
     Message(<<>>, NoDate, "<3@alerts>", HtmlPart(BodyA)),
     Message(<<>>, GoodDate, "<4@alerts>", Multipart(<<PlainPart, HtmlPart(BodyB)>>)),
     Message(<<>>, DateHeader(14, "december", 99), None, PlainPart),
     Message(<<>>, GoodDate, "<6@alerts>", UndecodablePart),
     Message(<<>>, GoodDate, "<7@alerts>", HtmlPart(BodyDefect))}

ArticleArchives ==
    SeqsUpTo(BaseMessages, MaxMsgs)
    \cup {<<Message(<<>>, GoodDate, "<8@alerts>", HtmlPart(b))>> : b \in FamilyBodies}

\* One message of any kind, followed by messages of the base set.
MessageArchives ==
    {<<>>} \cup {<<m>> \o rest : m \in Messages, rest \in SeqsUpTo(BaseMessages, MaxMsgs - 1)}


-----------------------------------------------------------------------------
(* The script *)

NoFile == [exists |-> FALSE, rows |-> <<>>]

\* The state at line 44, for an archive file holding msgs.
InitOf(msgs) ==
    /\ archive = msgs
    /\ archive_open = FALSE
    /\ pc = "start"
    /\ key = 0
    /\ steps = <<>>
    /\ messages_parsed = <<>>
    /\ messages_total = 0
    /\ messages_defective = 0
    /\ article_list = <<>>
    /\ entry_idx = 0
    /\ soup = BeautifulSoup(<<>>)
    /\ articles = <<>>
    /\ art_idx = 0
    /\ bold_tags = <<>>
    /\ article_text = El("", <<>>)
    /\ article_data = <<>>
    /\ google_url = <<>>
    /\ url = <<>>
    /\ output_file = NoFile
    /\ console = <<>>
    /\ error = ""

Init ==
    \/ mbox_file = "ok" /\ \E msgs \in MessageArchives : InitOf(msgs)
    \/ mbox_file \in {"missing", "unreadable"} /\ InitOf(<<>>)

InitArticles ==
    \/ mbox_file = "ok" /\ \E msgs \in ArticleArchives : InitOf(msgs)
    \/ mbox_file \in {"missing", "unreadable"} /\ InitOf(<<>>)

\* An exception nothing catches: the interpreter prints the traceback and the
\* process ends.
Raise(e) == pc' = "crashed" /\ error' = e

\* message.walk(): the part itself, then its subparts, depth first
RECURSIVE walk(_), walkAll(_)
walk(part) == <<part>> \o walkAll(part.parts)
walkAll(parts) == IF parts = <<>> THEN <<>> ELSE walk(Head(parts)) \o walkAll(Tail(parts))

\* 'html' in step.get_content_type()
HasHtml(ctype) == \E i \in 1..Len(ctype) : ctype[i] = "html"

\* Lines 49-54: the two checks of the mbox file, then mailbox.mbox() opens
\* it.  sys.exit() is called with two arguments there, which is a TypeError.
OpenArchive ==
    /\ pc = "start"
    /\ IF mbox_file = "ok"
       THEN /\ archive_open' = TRUE
            /\ pc' = "read"
            /\ error' = error
       ELSE /\ Raise("TypeError")
            /\ archive_open' = archive_open
    /\ UNCHANGED <<mbox_file, archive, key, steps, messages_parsed, messages_total,
                   messages_defective, article_list, entry_idx, soup, articles,
                   art_idx, bold_tags, article_text, article_data, google_url,
                   url, output_file, console>>

\* Lines 58-65: the next key of the archive; a message with defects is
\* counted and skipped.
NextMessage ==
    /\ pc = "read"
    /\ key < Len(archive)
    /\ key' = key + 1
    /\ messages_total' = messages_total + 1
    /\ LET message == archive[key + 1]
       IN IF message.defects # <<>>
          THEN /\ console' = Append(console, "Skipping message: defects")
               /\ messages_defective' = messages_defective + 1
               /\ UNCHANGED <<pc, steps>>
          ELSE /\ steps' = walk(message.root)
               /\ pc' = "walk"
               /\ UNCHANGED <<console, messages_defective>>
    /\ UNCHANGED <<mbox_file, archive, archive_open, messages_parsed, article_list,
                   entry_idx, soup, articles, art_idx, bold_tags, article_text,
                   article_data, google_url, url, output_file, error>>

\* Lines 67-91: one part of message.walk().  The continue of line 84 goes on
\* with the next part, and nothing leaves the loop after line 91.
WalkStep ==
    /\ pc = "walk"
    /\ steps # <<>>
    /\ LET message == archive[key]
           step == Head(steps)
           date_tuple == parsedate_tz(message.date)
           next == IF Tail(steps) = <<>> THEN "read" ELSE "walk"
       IN IF ~ HasHtml(step.ctype)
          THEN /\ pc' = next
               /\ steps' = Tail(steps)
               /\ UNCHANGED <<messages_parsed, messages_defective, console, error>>
          ELSE IF ~ step.decodable
          THEN /\ Raise("UnicodeDecodeError")
               /\ UNCHANGED <<steps, messages_parsed, messages_defective, console>>
          ELSE IF date_tuple # <<>>
          THEN /\ messages_parsed' =
                     Append(messages_parsed, <<FormatDate(date_tuple), message.mid, step.html>>)
               /\ pc' = next
               /\ steps' = Tail(steps)
               /\ UNCHANGED <<messages_defective, console, error>>
          ELSE /\ console' = Append(console, "Skipping message: date")
               /\ messages_defective' = messages_defective + 1
               /\ pc' = next
               /\ steps' = Tail(steps)
               /\ UNCHANGED <<messages_parsed, error>>
    /\ UNCHANGED <<mbox_file, archive, archive_open, key, messages_total, article_list,
                   entry_idx, soup, articles, art_idx, bold_tags, article_text,
                   article_data, google_url, url, output_file>>

\* Lines 93-101: the three totals, then the try block.  Line 98 names the
\* bound method archive.close and does not call it: nothing is closed,
\* nothing can raise, and line 99 prints.
ReportAndClose ==
    /\ pc = "read"
    /\ key = Len(archive)
    /\ console' = console \o <<"Total messages", "Total defective", "Total extracted",
                               "Mailbox archive closed.">>
    /\ pc' = "entry"
    /\ UNCHANGED <<mbox_file, archive, archive_open, key, steps, messages_parsed,
                   messages_total, messages_defective, article_list, entry_idx, soup,
                   articles, art_idx, bold_tags, article_text, article_data,
                   google_url, url, output_file, error>>

\* Lines 108-110: the next entry of messages_parsed is parsed and its article
\* rows are located.
NextEntry ==
    /\ pc = "entry"
    /\ entry_idx < Len(messages_parsed)
    /\ entry_idx' = entry_idx + 1
    /\ LET parsed == BeautifulSoup(messages_parsed[entry_idx + 1][3])
       IN /\ soup' = parsed
          /\ articles' = findAllArticles(parsed)
    /\ art_idx' = 0
    /\ pc' = "article"
    /\ UNCHANGED <<mbox_file, archive, archive_open, key, steps, messages_parsed,
                   messages_total, messages_defective, article_list, bold_tags,
                   article_text, article_data, google_url, url, output_file,
                   console, error>>

\* Lines 111 and 117: the next article of the entry, and the list of its b
\* tags, which find_all builds before the first of them is unwrapped.
NextArticle ==
    /\ pc = "article"
    /\ IF art_idx < Len(articles)
       THEN /\ art_idx' = art_idx + 1
            /\ bold_tags' = find_all_b(soup, articles[art_idx + 1])
            /\ pc' = "unwrap"
       ELSE /\ pc' = "entry"
            /\ UNCHANGED <<art_idx, bold_tags>>
    /\ UNCHANGED <<mbox_file, archive, archive_open, key, steps, messages_parsed,
                   messages_total, messages_defective, article_list, entry_idx, soup,
                   articles, article_text, article_data, google_url, url,
                   output_file, console, error>>

\* Lines 117-118: one b tag is replaced by its children.
UnwrapBold ==
    /\ pc = "unwrap"
    /\ bold_tags # <<>>
    /\ soup' = replace_with_children(soup, Head(bold_tags))
    /\ bold_tags' = Tail(bold_tags)
    /\ UNCHANGED <<mbox_file, archive, archive_open, pc, key, steps, messages_parsed,
                   messages_total, messages_defective, article_list, entry_idx,
                   articles, art_idx, article_text, article_data, google_url, url,
                   output_file, console, error>>

\* Line 119: article_text = str(article), once the b tags are gone.
SerializeArticle ==
    /\ pc = "unwrap"
    /\ bold_tags = <<>>
    /\ article_text' = ToMarkup(soup, articles[art_idx])
    /\ pc' = "extract"
    /\ UNCHANGED <<mbox_file, archive, archive_open, key, steps, messages_parsed,
                   messages_total, messages_defective, article_list, entry_idx, soup,
                   articles, art_idx, bold_tags, article_data, google_url, url,
                   output_file, console, error>>

\* Line 122
ExtractMicrodata ==
    /\ pc = "extract"
    /\ article_data' = MicrodataExtract(article_text)
    /\ pc' = "resolve"
    /\ UNCHANGED <<mbox_file, archive, archive_open, key, steps, messages_parsed,
                   messages_total, messages_defective, article_list, entry_idx, soup,
                   articles, art_idx, bold_tags, article_text, google_url, url,
                   output_file, console, error>>

\* Lines 125-127: the link of the first item, and its url parameter.
ResolveUrl ==
    /\ pc = "resolve"
    /\ IF article_data = <<>>
       THEN Raise("IndexError") /\ UNCHANGED <<google_url, url>>
       ELSE IF "url" \notin DOMAIN article_data[1].properties
       THEN Raise("KeyError") /\ UNCHANGED <<google_url, url>>
       ELSE IF article_data[1].properties["url"].item
       THEN Raise("AttributeError") /\ UNCHANGED <<google_url, url>>
       ELSE /\ google_url' = article_data[1].properties["url"].str
            /\ url' = QueryGet(UrlQuery(article_data[1].properties["url"].str), <<"url">>)
            /\ pc' = "fields"
            /\ error' = error
    /\ UNCHANGED <<mbox_file, archive, archive_open, key, steps, messages_parsed,
                   messages_total, messages_defective, article_list, entry_idx, soup,
                   articles, art_idx, bold_tags, article_text, article_data,
                   output_file, console>>

\* Variant: a block without the fields of a row is skipped with a diagnostic
\* and the loop goes on.
AppendRow_skipsDefect ==
    /\ pc = "fields"
    /\ LET props == article_data[1].properties
           entry == messages_parsed[entry_idx]
       IN IF \/ ~ ({"name", "description", "publisher"} \subseteq DOMAIN props)
             \/ ~ props["publisher"].item
             \/ "name" \notin DOMAIN props["publisher"].properties
          THEN /\ console' = Append(console, "Skipping article")
               /\ UNCHANGED article_list
          ELSE /\ article_list' =
                     Append(article_list,
                            <<entry[1], entry[2], url, props["name"],
                              props["publisher"].properties["name"], props["description"]>>)
               /\ console' = console
    /\ pc' = "article"
    /\ UNCHANGED <<mbox_file, archive, archive_open, key, steps, messages_parsed,
                   messages_total, messages_defective, entry_idx, soup, articles,
                   art_idx, bold_tags, article_text, article_data, google_url, url,
                   output_file, error>>

\* Lines 129-135: title, teaser and publisher name of the first item, and the
\* row is appended.
AppendRow ==
    /\ pc = "fields"
    /\ LET props == article_data[1].properties
           entry == messages_parsed[entry_idx]
       IN IF "name" \notin DOMAIN props \/ "description" \notin DOMAIN props
             \/ "publisher" \notin DOMAIN props
          THEN Raise("KeyError") /\ UNCHANGED article_list
          ELSE IF ~ props["publisher"].item
          THEN Raise("TypeError") /\ UNCHANGED article_list
          ELSE IF "name" \notin DOMAIN props["publisher"].properties
          THEN Raise("KeyError") /\ UNCHANGED article_list
          ELSE /\ article_list' =
                     Append(article_list,
                            <<entry[1], entry[2], url, props["name"],
                              props["publisher"].properties["name"], props["description"]>>)
               /\ pc' = "article"
               /\ error' = error
    /\ UNCHANGED <<mbox_file, archive, archive_open, key, steps, messages_parsed,
                   messages_total, messages_defective, entry_idx, soup, articles,
                   art_idx, bold_tags, article_text, article_data, google_url, url,
                   output_file, console>>

\* csv.writer renders None as the empty field and any other value by str().
CsvField(v) == IF v = None THEN "" ELSE v

CsvRow(row) ==
    <<row[1], CsvField(row[2]), row[3],
      IF row[4].item THEN <<"{dict}">> ELSE row[4].str,
      IF row[5].item THEN <<"{dict}">> ELSE row[5].str,
      IF row[6].item THEN <<"{dict}">> ELSE row[6].str>>

CsvRows(rows) == [i \in 1..Len(rows) |-> CsvRow(rows[i])]

\* Lines 137-142: the count is printed and the output file is opened for
\* writing, which empties it; an OSError goes to line 147.
OpenOutput ==
    /\ pc = "entry"
    /\ entry_idx = Len(messages_parsed)
    /\ \/ /\ output_file' = [exists |-> TRUE, rows |-> <<>>]
          /\ console' = Append(console, "Extracted articles")
          /\ pc' = "writing"
       \/ /\ output_file' = output_file
          /\ console' = console \o <<"Extracted articles", "Error while outputting">>
          /\ pc' = "exit"
    /\ UNCHANGED <<mbox_file, archive, archive_open, key, steps, messages_parsed,
                   messages_total, messages_defective, article_list, entry_idx, soup,
                   articles, art_idx, bold_tags, article_text, article_data,
                   google_url, url, error>>

\* Variant: the write stops anywhere and nothing is printed.
WriteRows_silent ==
    /\ pc = "writing"
    /\ \E k \in 0..Len(article_list) :
          output_file' = [output_file EXCEPT !.rows = CsvRows(SubSeq(article_list, 1, k))]
    /\ pc' = "exit"
    /\ UNCHANGED <<mbox_file, archive, archive_open, key, steps, messages_parsed,
                   messages_total, messages_defective, article_list, entry_idx, soup,
                   articles, art_idx, bold_tags, article_text, article_data,
                   google_url, url, console, error>>

\* Lines 143-147: writerows, line 145 and the close of the with block.  The
\* device may fail while rows are written or when the buffer is flushed at
\* the close; what had reached the file by then stays there.
WriteRows ==
    /\ pc = "writing"
    /\ \/ /\ output_file' = [output_file EXCEPT !.rows = CsvRows(article_list)]
          /\ console' = Append(console, "All articles output")
       \/ \E k \in 0..(Len(article_list) - 1) :
            /\ output_file' = [output_file EXCEPT !.rows = CsvRows(SubSeq(article_list, 1, k))]
            /\ console' = Append(console, "Error while outputting")
       \/ \E k \in 0..(Len(article_list) - 1) :
            /\ output_file' = [output_file EXCEPT !.rows = CsvRows(SubSeq(article_list, 1, k))]
            /\ console' = console \o <<"All articles output", "Error while outputting">>
    /\ pc' = "exit"
    /\ UNCHANGED <<mbox_file, archive, archive_open, key, steps, messages_parsed,
                   messages_total, messages_defective, article_list, entry_idx, soup,
                   articles, art_idx, bold_tags, article_text, article_data,
                   google_url, url, error>>

\* Line 149
Exit ==
    /\ pc = "exit"
    /\ pc' = "done"
    /\ UNCHANGED <<mbox_file, archive, archive_open, key, steps, messages_parsed,
                   messages_total, messages_defective, article_list, entry_idx, soup,
                   articles, art_idx, bold_tags, article_text, article_data,
                   google_url, url, output_file, console, error>>

Next ==
    \/ OpenArchive
    \/ NextMessage
    \/ WalkStep
    \/ ReportAndClose
    \/ NextEntry
    \/ NextArticle
    \/ UnwrapBold
    \/ SerializeArticle
    \/ ExtractMicrodata
    \/ ResolveUrl
    \/ AppendRow
    \/ OpenOutput
    \/ WriteRows
    \/ Exit

\* Archives that vary the messages: defects, date headers, part trees.
Spec == Init /\ [][Next]_vars

\* Archives that vary the article rows: inline markup, links, microdata.
SpecArticles == InitArticles /\ [][Next]_vars

-----------------------------------------------------------------------------
(* Properties *)

ExtractionPhase == {"entry", "article", "unwrap", "extract", "resolve", "fields"}

OutputPhase == {"writing", "exit", "done"}

\* The read loop of lines 58-91 has run to its end.
ReadPhaseDone == pc \in ExtractionPhase \cup OutputPhase

HtmlPartsOf(m) == {i \in 1..Len(walk(m.root)) : HasHtml(walk(m.root)[i].ctype)}

Defective(m) == m.defects # <<>>

DateFails(m) == parsedate_tz(m.date) = <<>>

Keys == 1..Len(archive)

\* C1: at the end of the message-reading phase, messages_total =
\* messages_defective + (number of messages without defects that have no
\* HTML part) + len(messages_parsed), whatever the messages are.
C1_TotalsBalance ==
    ReadPhaseDone =>
        messages_total =
            messages_defective
            + Cardinality({k \in Keys : ~ Defective(archive[k]) /\ HtmlPartsOf(archive[k]) = {}})
            + Len(messages_parsed)

IsDigits(s) == \A i \in 1..Len(s) : \E d \in 1..10 : DigitChars[d] = s[i]

\* C2: the date string of every parsed message, and of every output row, is
\* exactly 8 digit characters (2 of month, 2 of day, 4 of year), for every
\* year the date parser returns.
C2_DateIsEightDigits ==
    /\ \A i \in 1..Len(messages_parsed) :
          Len(messages_parsed[i][1]) = 8 /\ IsDigits(messages_parsed[i][1])
    /\ \A i \in 1..Len(article_list) :
          Len(article_list[i][1]) = 8 /\ IsDigits(article_list[i][1])

\* The article rows of a body, counted on the markup itself.
RECURSIVE CountArticleRows(_)
CountArticleRows(ks) ==
    IF ks = <<>> THEN 0
    ELSE (IF Head(ks).tag = "tr" /\ Head(ks).itemtype = ArticleType THEN 1 ELSE 0)
         + CountArticleRows(Head(ks).kids) + CountArticleRows(Tail(ks))

RECURSIVE ExpectedOrigins(_)
ExpectedOrigins(entries) ==
    IF entries = <<>> THEN <<>>
    ELSE Repeat(<<Head(entries)[1], Head(entries)[2]>>, CountArticleRows(Head(entries)[3]))
         \o ExpectedOrigins(Tail(entries))

\* C3: when no extraction defect has ended the run, every entry of
\* messages_parsed the loop is through with has given as many rows as its
\* body has tr elements of itemtype http://schema.org/Article (none for a
\* body without any), in order, each with that entry's date and message id
\* in its first two columns.
C3_RowsPerEntry ==
    (pc = "entry" \/ pc \in OutputPhase) =>
        [i \in 1..Len(article_list) |-> <<article_list[i][1], article_list[i][2]>>]
            = ExpectedOrigins(SubSeq(messages_parsed, 1, entry_idx))

C3_Witness ==
    /\ pc = "done"
    /\ Len(article_list) >= 2
    /\ \E i, j \in 1..Len(messages_parsed) :
          /\ CountArticleRows(messages_parsed[i][3]) = 0
          /\ CountArticleRows(messages_parsed[j][3]) >= 2
          /\ i < j

\* The places of a link where a parameter named url with a value starts:
\* right after the "?" that opens the query or after a "&", followed by "="
\* and at least one character of value, before any fragment.
UrlParams(u) ==
    {i \in 2..(Len(u) - 2) :
        /\ u[i] = "url" /\ u[i + 1] = "=" /\ u[i + 2] \notin {"&", "#"}
        /\ \/ u[i - 1] = "&" /\ \E j \in 1..(i - 1) : u[j] = "?"
           \/ u[i - 1] = "?" /\ \A j \in 1..(i - 2) : u[j] # "?"
        /\ \A j \in 1..i : u[j] # "#"}

ExpectedDestination(u) ==
    IF UrlParams(u) = {} THEN <<>>
    ELSE LET i == CHOOSE a \in UrlParams(u) : \A b \in UrlParams(u) : a <= b
             end == CHOOSE e \in (i + 2)..Len(u) :
                        /\ \A j \in (i + 2)..e : u[j] \notin {"&", "#"}
                        /\ e = Len(u) \/ u[e + 1] \in {"&", "#"}
         IN Unquote(SubSeq(u, i + 2, end))

\* C4: the resolved url is the decoded value of the link's url parameter
\* when the link has one, and the empty string when it has none; in both
\* cases the article's row is appended with that url in its third column.
\* The link https://redirect.example/?url=https%3A%2F%2Fnews.example%2Fa
\* resolves to https://news.example/a.
C4_UrlResolution ==
    /\ pc = "fields" => url = ExpectedDestination(google_url)
    /\ (pc = "article" /\ art_idx > 0) =>
          /\ article_list # <<>>
          /\ Last(article_list)[3] = ExpectedDestination(google_url)
    /\ (pc = "fields" /\ google_url = ExampleLink) =>
          url = <<"https", ":", "/", "/", "news.example", "/", "a">>

C4_Witness ==
    /\ pc = "article"
    /\ art_idx > 0
    /\ UrlParams(google_url) = {}
    /\ \E i \in 1..Len(google_url) : google_url[i] = "rct"
    /\ Last(article_list)[3] = <<>>

\* C5: in every run that reaches the article-extraction phase, the handle
\* the read phase opened on the archive is no longer open.
C5_ArchiveClosed == pc \in ExtractionPhase => ~ archive_open

\* The item the row is built from is missing, or lacks a property the row
\* needs, or its publisher is no item with a name.
ExtractionDefect(data) ==
    \/ data = <<>>
    \/ /\ data # <<>>
       /\ \/ ~ ({"url", "name", "description", "publisher"} \subseteq DOMAIN data[1].properties)
          \/ /\ "publisher" \in DOMAIN data[1].properties
             /\ \/ ~ data[1].properties["publisher"].item
                \/ "name" \notin DOMAIN data[1].properties["publisher"].properties

\* C6: when the extraction of an article block gave no item, or an item
\* without a required property, the run ends there with the uncaught error:
\* no row is appended for the block, nothing happens after the crash, and
\* the output file has not been touched.
C6_DefectAborts ==
    [][/\ (pc \in {"resolve", "fields"} /\ ExtractionDefect(article_data)) =>
             /\ article_list' = article_list
             /\ pc' = "crashed" \/ (pc = "resolve" /\ pc' = "fields")
       /\ pc' = "crashed" => output_file' = NoFile /\ article_list' = article_list
       /\ pc # "crashed"]_vars

C6_Witness ==
    /\ pc = "crashed"
    /\ error = "KeyError"
    /\ ExtractionDefect(article_data)
    /\ "publisher" \notin DOMAIN article_data[1].properties
    /\ Len(article_list) >= 1
    /\ art_idx < Len(articles)
    /\ output_file = NoFile

Reported(line) == \E i \in 1..Len(console) : console[i] = line

\* C7 as stated: when the run is over and the output file does not hold all
\* the rows, the failure was caught and reported, nothing was left uncaught,
\* and the file does not hold a proper, non-empty prefix of the rows.
C7_NoPartialWrite ==
    (pc \in {"exit", "done"} /\ output_file # [exists |-> TRUE, rows |-> CsvRows(article_list)]) =>
        /\ error = ""
        /\ Reported("Error while outputting")
        /\ ~ (/\ output_file.rows # <<>>
              /\ Len(output_file.rows) < Len(article_list)
              /\ IsPrefix(output_file.rows, CsvRows(article_list)))

\* C7, amended: when the run is over and the output file does not hold all
\* the rows, the failure was caught and reported and nothing was left
\* uncaught; the file, when it exists, holds a prefix of the rows, which may
\* be a proper, non-empty one.
C7_WriteFailureReported ==
    (pc \in {"exit", "done"} /\ output_file # [exists |-> TRUE, rows |-> CsvRows(article_list)]) =>
        /\ error = ""
        /\ Reported("Error while outputting")
        /\ IsPrefix(output_file.rows, CsvRows(article_list))

C7_Witness ==
    /\ pc = "done"
    /\ Reported("Error while outputting")
    /\ output_file.exists
    /\ output_file.rows # <<>>
    /\ Len(output_file.rows) < Len(article_list)

\* C8: the final defective count is the number of messages that are flagged
\* with defects or, being free of defects, have a date header that does not
\* parse, whatever number of HTML parts they have.
C8_DefectiveCount ==
    ReadPhaseDone =>
        messages_defective =
            Cardinality({k \in Keys : Defective(archive[k]) \/ DateFails(archive[k])})

FirstHtmlPart(m) ==
    walk(m.root)[CHOOSE i \in HtmlPartsOf(m) : \A j \in HtmlPartsOf(m) : i <= j]

RECURSIVE ExpectedParsed(_)
ExpectedParsed(msgs) ==
    IF msgs = <<>> THEN <<>>
    ELSE LET m == Head(msgs)
         IN (IF ~ Defective(m) /\ ~ DateFails(m) /\ HtmlPartsOf(m) # {}
             THEN <<<<FormatDate(parsedate_tz(m.date)), m.mid, FirstHtmlPart(m).html>>>>
             ELSE <<>>)
            \o ExpectedParsed(Tail(msgs))

\* C9: messages_parsed holds, in archive order, exactly one entry for every
\* message without defects, with a date that parses and with an HTML part,
\* built from the first such part in walk order; several HTML parts give
\* one entry.
C9_OneEntryPerMessage == ReadPhaseDone => messages_parsed = ExpectedParsed(archive)

EmphasisTags == {"b", "strong", "em", "i"}

RECURSIVE HasTag(_, _)
HasTag(ks, tags) ==
    /\ ks # <<>>
    /\ \/ Head(ks).tag \in tags
       \/ HasTag(Head(ks).kids, tags)
       \/ HasTag(Tail(ks), tags)

\* The markup with every b element replaced by its children.
RECURSIVE WithoutBold(_)
WithoutBold(ks) ==
    IF ks = <<>> THEN <<>>
    ELSE (IF Head(ks).tag = "b" THEN WithoutBold(Head(ks).kids)
          ELSE <<[Head(ks) EXCEPT !.kids = MergeText(WithoutBold(@))]>>)
         \o WithoutBold(Tail(ks))

RECURSIVE ArticleRowsIn(_)
ArticleRowsIn(ks) ==
    IF ks = <<>> THEN <<>>
    ELSE (IF Head(ks).tag = "tr" /\ Head(ks).itemtype = ArticleType THEN <<Head(ks)>> ELSE <<>>)
         \o ArticleRowsIn(Head(ks).kids) \o ArticleRowsIn(Tail(ks))

\* The article block the loop is at, as it stands in the entry's body.
CurrentBlock == ArticleRowsIn(messages_parsed[entry_idx][3])[art_idx]

\* The content of the first element of the block that states a name (the
\* title, when the block has one).
RECURSIVE NamedAmong(_)
NamedAmong(nodes) ==
    IF nodes = <<>> THEN <<>>
    ELSE (IF Head(nodes).itemprop = "name" THEN <<Head(nodes)>> ELSE <<>>)
         \o NamedAmong(Tail(nodes))

TitleMarkup(block) ==
    IF NamedAmong(Preorder(block)) = <<>> \/ block.kids[1].kids = <<>>
           \/ block.kids[1].kids[1].itemprop # "url"
    THEN <<>>
    ELSE NamedAmong(Preorder(block))[1].kids

RECURSIVE Words(_)
Words(ks) ==
    IF ks = <<>> THEN <<>>
    ELSE Head(ks).text \o Words(Head(ks).kids) \o Words(Tail(ks))

\* C10 as stated: when extraction is invoked on a block, the fragment holds
\* no bold or emphasis element (b, strong, em, i) at any depth, and its
\* words are those of the block, in order.
C10_NoEmphasisAtExtraction ==
    pc = "extract" =>
        /\ ~ HasTag(<<article_text>>, EmphasisTags)
        /\ Words(<<article_text>>) = Words(<<CurrentBlock>>)

\* C10, amended: when extraction is invoked on a block, every b element of
\* the block, at any depth, has been replaced by its children in place (the
\* fragment is the block without its b tags, other inline elements kept),
\* so the words are those of the block, in order; a title written
\* <b>AI</b>-powered is extracted as AI-powered, without a space.
C10_NoBoldAtExtraction ==
    /\ pc = "extract" =>
          /\ bold_tags = <<>>
          /\ ~ HasTag(<<article_text>>, {"b"})
          /\ <<article_text>> = WithoutBold(<<CurrentBlock>>)
          /\ Words(<<article_text>>) = Words(<<CurrentBlock>>)
    /\ (pc = "fields" /\ TitleMarkup(CurrentBlock) = <<El("b", <<Word("AI")>>), Word("-powered")>>) =>
          article_data[1].properties["name"] = StrValue(<<"AI", "-powered">>)

RECURSIVE HasNestedBold(_)
HasNestedBold(ks) ==
    /\ ks # <<>>
    /\ \/ Head(ks).tag = "b" /\ HasTag(Head(ks).kids, {"b"})
       \/ HasNestedBold(Head(ks).kids)
       \/ HasNestedBold(Tail(ks))

C10_Witness ==
    /\ pc = "extract"
    /\ HasNestedBold(<<CurrentBlock>>)
    /\ HasTag(<<article_text>>, {"em"})

====
